---------------------------- MODULE Spec2Model ----------------------------
(***************************************************************************)
(* Model of PyInstaller/utils/hooks/tcl_tk.py: discovery and collection of *)
(* the Tcl/Tk data files.                                                  *)
(*                                                                         *)
(* Representation.  A path is a sequence of tokens: the token "/" is the   *)
(* separator, every other token is one file or directory name.  The text   *)
(* of a line of init.tcl is a sequence of one-character strings.  A version*)
(* string is a sequence of tokens ("8", ".", "6").  String operations of   *)
(* the source (join, dirname, basename, split, strip, lower, startswith,   *)
(* endswith, in) are computed on these sequences.                          *)
(***************************************************************************)
EXTENDS Naturals, Sequences, FiniteSets

VARIABLES
    is_darwin,          \* compat.is_darwin
    tkinter_ext_file,   \* the argument of collect_tcl_tk_files
    dirs,               \* the filesystem: the existing directories (component sequences)
    info_library,       \* answer of the probe Tcl().eval("info library")
    tk_version,         \* answer of the probe TK_VERSION
    info_tclversion,    \* answer of the probe Tcl().eval("info tclversion")
    pc,                 \* position inside collect_tcl_tk_files
    calls,              \* the collaborators called so far, in order
    scanner_answer,     \* what selectImports and getImports answered in _find_tcl_tk
    bins,               \* local of _find_tcl_tk
    tcl_root,
    tk_root,
    tcltree,
    tktree,
    init_file,          \* what _warn_if_activetcl_or_teapot_installed read
    modules_path,       \* local of _collect_tcl_modules
    tclmodulestree,
    log,                \* the records handed to the logger, in order
    result,             \* the value returned by collect_tcl_tk_files
    exception           \* the exception that left collect_tcl_tk_files, "" if none

vars == <<is_darwin, tkinter_ext_file, dirs, info_library, tk_version,
          info_tclversion, pc, calls, scanner_answer, bins, tcl_root, tk_root, tcltree, tktree,
          init_file, modules_path, tclmodulestree, log, result, exception>>

env == <<is_darwin, tkinter_ext_file, dirs, info_library, tk_version, info_tclversion>>

-----------------------------------------------------------------------------
(* Bounds of the model. *)

\* longest linked-image list the dependency scanner returns
MaxBins == 2
\* most files a directory tree holds
MaxFiles == 2
\* most lines of init.tcl
MaxLines == 2

-----------------------------------------------------------------------------
(* Values. *)

\* Python's None (no path holds this token)
None == <<"<None>">>
\* a variable not assigned yet
Unset == <<"<unset>">>
\* marks a failed path walk
Missing == <<"<missing>">>

\* truth value of a str-or-None: None and '' are false
Truthy(x) == x # None /\ x # <<>>

RECURSIVE Flatten(_)
\* the text of a token sequence
Flatten(s) == IF s = <<>> THEN "" ELSE Head(s) \o Flatten(Tail(s))

\* the sequences without repetition over S, of length at most n
RECURSIVE Arrangements(_, _)
Arrangements(S, n) ==
    IF n = 0 THEN {<<>>}
    ELSE {<<>>} \cup
         UNION {{<<x>> \o t : t \in Arrangements(S \ {x}, n - 1)} : x \in S}

\* the sequences over S, of length at most n
RECURSIVE SeqsUpTo(_, _)
SeqsUpTo(S, n) ==
    IF n = 0 THEN {<<>>}
    ELSE {<<>>} \cup {<<x>> \o t : x \in S, t \in SeqsUpTo(S, n - 1)}

-----------------------------------------------------------------------------
(* os.path (posixpath) on token sequences. *)

\* str.rfind('/') + 1
LastSlash(p) ==
    LET S == {i \in 1..Len(p) : p[i] = "/"}
    IN  IF S = {} THEN 0 ELSE CHOOSE i \in S : \A j \in S : j <= i

RECURSIVE RStripSlash(_)
\* str.rstrip('/')
RStripSlash(p) ==
    IF p # <<>> /\ p[Len(p)] = "/" THEN RStripSlash(SubSeq(p, 1, Len(p) - 1)) ELSE p

\* os.path.basename
Basename(p) == SubSeq(p, LastSlash(p) + 1, Len(p))

\* os.path.dirname
Dirname(p) ==
    LET head == SubSeq(p, 1, LastSlash(p))
    IN  IF head # <<>> /\ (\E i \in 1..Len(head) : head[i] # "/")
        THEN RStripSlash(head) ELSE head

\* os.path.join(a, b)
Join(a, b) ==
    IF b # <<>> /\ b[1] = "/" THEN b
    ELSE IF a = <<>> \/ a[Len(a)] = "/" THEN a \o b
    ELSE a \o <<"/">> \o b

\* needle in hay
Contains(hay, needle) ==
    \E i \in 0..Len(hay) :
        /\ i + Len(needle) <= Len(hay)
        /\ SubSeq(hay, i + 1, i + Len(needle)) = needle

\* hay.startswith(prefix)
StartsWith(hay, prefix) ==
    Len(prefix) <= Len(hay) /\ SubSeq(hay, 1, Len(prefix)) = prefix

\* hay.endswith(suffix)
EndsWith(hay, suffix) ==
    Len(suffix) <= Len(hay)
    /\ SubSeq(hay, Len(hay) - Len(suffix) + 1, Len(hay)) = suffix

\* the names of a path, separators dropped
Components(p) == SelectSeq(p, LAMBDA t : t # "/")

RECURSIVE Walk(_, _, _)
\* the directory a path leads to in filesystem d: ".." steps out of an existing directory
Walk(d, stack, rest) ==
    IF rest = <<>> THEN stack
    ELSE IF Head(rest) = ".."
         THEN IF stack = <<>> THEN Walk(d, <<>>, Tail(rest))
              ELSE IF stack \in d
                   THEN Walk(d, SubSeq(stack, 1, Len(stack) - 1), Tail(rest))
                   ELSE Missing
         ELSE Walk(d, Append(stack, Head(rest)), Tail(rest))

\* os.path.isdir in filesystem d
IsDirIn(d, p) ==
    /\ p # <<>>
    /\ LET r == Walk(d, <<>>, Components(p))
       IN  r # Missing /\ (r = <<>> \/ r \in d)

\* os.path.isdir
IsDir(p) == IsDirIn(dirs, p)

-----------------------------------------------------------------------------
(* The inputs: what the host can answer. *)

\* the linked images the dependency scanner can report
SystemTcl == <<"/", "System", "/", "Library", "/", "Frameworks", "/", "Tcl.framework",
               "/", "Versions", "/", "8.5", "/", "Tcl">>
SystemTk == <<"/", "System", "/", "Library", "/", "Frameworks", "/", "Tk.framework",
              "/", "Versions", "/", "8.5", "/", "Tk">>
BundledTcl == <<"/", "Library", "/", "Frameworks", "/", "Python.framework", "/", "Versions",
                "/", "3.9", "/", "lib", "/", "libtcl8.6.dylib">>
PrivateTcl == <<"/", "opt", "/", "tcltk", "/", "Tcl">>
PrivateTk == <<"/", "opt", "/", "tcltk", "/", "Tk">>
LibSystem == <<"/", "usr", "/", "lib", "/", "libSystem.B.dylib">>

Images == {SystemTcl, SystemTk, BundledTcl, PrivateTcl, PrivateTk, LibSystem}

\* bindepend.selectImports: a list of (name, path) pairs
CuratedLists == {[i \in 1..Len(s) |-> <<Flatten(Basename(s[i])), s[i]>>] :
                    s \in Arrangements(Images, MaxBins)}

\* bindepend.getImports: a set of paths, in the order its iteration yields them
FullLists == Arrangements(Images, MaxBins)

\* answers of the probe "info library" ('' when the interpreter prints nothing)
LibraryRoots == {<<>>,
                 <<"/", "usr", "/", "lib", "/", "tcl8.6">>,
                 <<"/", "Library", "/", "Frameworks", "/", "Python.framework", "/",
                   "Versions", "/", "3.9", "/", "lib", "/", "tcl8.6">>}

\* answers of the probes TK_VERSION and "info tclversion"
TkVersions == {<<"8", ".", "6">>, <<"8", ".", "5">>}
TclVersions == {<<"8", ".", "6">>, <<"9", ".", "0">>}

ExtFiles == {<<"/", "py", "/", "lib-dynload", "/", "_tkinter.so">>,
             <<"/", "venv", "/", "_tkinter.so">>}

-----------------------------------------------------------------------------
(* _find_tcl_tk_dir and _find_tcl_tk *)

\* 'tk%s' % tk_version
TkDirName(tkver) == "tk" \o Flatten(tkver)

\* _find_tcl_tk_dir, given the answers of its two probes
\* (variant: the Tk directory is looked for inside the Tcl directory)
FindTclTkDir_SameDir(lib, tkver) == <<lib, Join(lib, <<TkDirName(tkver)>>)>>
FindTclTkDir(lib, tkver) == <<lib, Join(Dirname(lib), <<TkDirName(tkver)>>)>>

RECURSIVE Mapping(_, _)
\* mapping[name] after "for lib in bins: mapping[os.path.basename(lib)] = lib"
Mapping(imports, name) ==
    IF imports = <<>> THEN Missing
    ELSE LET last == imports[Len(imports)]
         IN  IF Basename(last) = <<name>> THEN last
             ELSE Mapping(SubSeq(imports, 1, Len(imports) - 1), name)

\* lines 135-141: whether mapping['Tcl'] or mapping['Tk'] raises KeyError
ReformatRaises(imports) ==
    Mapping(imports, "Tcl") = Missing \/ Mapping(imports, "Tk") = Missing

\* lines 138-141: [('Tcl', mapping['Tcl']), ('Tk', mapping['Tk'])]
Reformat(imports) ==
    <<<<"Tcl", Mapping(imports, "Tcl")>>, <<"Tk", Mapping(imports, "Tk")>>>>

\* 'Library/Frameworks/Tcl.framework'
SystemFrameworkMark == <<"Library", "/", "Frameworks", "/", "Tcl.framework">>

\* whether _find_tcl_tk leaves by KeyError
FindRaises(darwin, curated, imports) ==
    darwin /\ curated = <<>> /\ imports # <<>> /\ ReformatRaises(imports)

\* the list _find_tcl_tk works on: the curated list, else the reformatted full list
BinsOf(curated, imports) ==
    IF curated # <<>> THEN curated
    ELSE IF imports # <<>> /\ ~ReformatRaises(imports) THEN Reformat(imports) ELSE <<>>

\* lines 142-154: the list tells _find_tcl_tk that the system framework is in use:
\* it is empty, or the path of its first entry lies inside the system Tcl framework
\* (variant: an empty list is not taken for the system framework)
SystemFrameworkUsed_NonEmptyOnly(b) == b # <<>> /\ Contains(b[1][2], SystemFrameworkMark)
SystemFrameworkUsed(b) == b = <<>> \/ Contains(b[1][2], SystemFrameworkMark)

\* the scanner calls _find_tcl_tk makes on macOS
ScannerCalls(curated) ==
    IF curated # <<>> THEN <<"selectImports">> ELSE <<"selectImports", "getImports">>

\* _find_tcl_tk: [raised, roots, calls, bins] for the platform, the scanner's two
\* answers and the probes' answers
FindTclTk(darwin, curated, imports, lib, tkver) ==
    IF darwin
    THEN LET b == BinsOf(curated, imports)
             c == ScannerCalls(curated)
         IN  IF FindRaises(darwin, curated, imports)
             THEN [raised |-> TRUE, roots |-> <<Unset, Unset>>, calls |-> c, bins |-> <<>>]
             ELSE IF SystemFrameworkUsed(b)
             THEN [raised |-> FALSE, roots |-> <<None, None>>, calls |-> c, bins |-> b]
             ELSE [raised |-> FALSE, roots |-> FindTclTkDir(lib, tkver),
                   calls |-> c \o <<"_find_tcl_tk_dir">>, bins |-> b]
    ELSE [raised |-> FALSE, roots |-> FindTclTkDir(lib, tkver),
          calls |-> <<"_find_tcl_tk_dir">>, bins |-> <<>>]

\* the answers of the scanner's two operations that _find_tcl_tk can tell apart:
\* getImports is consulted only when selectImports answered nothing
ScannerAnswers ==
    {<<c, <<>>>> : c \in CuratedLists \ {<<>>}} \cup {<<<<>>, i>> : i \in FullLists}

-----------------------------------------------------------------------------
(* Tree (PyInstaller.building.datastruct) and the files of the host. *)

\* the files a directory walk of each root can yield, relative to the root
TclFiles == {<<"init.tcl">>, <<"tclConfig.sh">>, <<"http1.0", "/", "http.tcl">>}
TkFiles == {<<"tk.tcl">>, <<"tk86.lib">>}
ModuleFiles == {<<"msgcat-1.6.tm">>, <<"8.6", "/", "http-2.9.tm">>}

TclListings == Arrangements(TclFiles, MaxFiles)
TkListings == Arrangements(TkFiles, MaxFiles)
ModuleListings == Arrangements(ModuleFiles, MaxFiles)

\* the names of the pools that end in ".lib"
LibNames == {"tk86.lib"}

\* whether a glob of an excludes list matches a name
GlobMatches(pattern, name) ==
    IF pattern = "*.lib" THEN name \in LibNames ELSE pattern = name

\* whether a relative path is excluded: one of its names matches one of the globs
Excluded(rel, excludes) ==
    \E i \in 1..Len(rel) : \E j \in 1..Len(excludes) :
        rel[i] # "/" /\ GlobMatches(excludes[j], rel[i])

\* Tree(root, prefix=prefix, excludes=excludes) over a walk that yields `listing`
Tree(root, prefix, excludes, listing) ==
    LET kept == SelectSeq(listing, LAMBDA rel : ~Excluded(rel, excludes))
    IN  [i \in 1..Len(kept) |-> <<Join(<<prefix>>, kept[i]), Join(root, kept[i]), "DATA">>]

\* TOC.__add__
Plus(a, b) == a \o b

-----------------------------------------------------------------------------
(* _warn_if_activetcl_or_teapot_installed *)

RECURSIVE FromComponents(_)
FromComponents(c) == IF c = <<>> THEN <<>> ELSE <<"/", Head(c)>> \o FromComponents(Tail(c))

RECURSIVE Collapse(_, _)
\* the names left once "." is dropped and ".." has taken back the name before it
Collapse(stack, rest) ==
    IF rest = <<>> THEN stack
    ELSE IF Head(rest) = "." THEN Collapse(stack, Tail(rest))
    ELSE IF Head(rest) = ".."
         THEN Collapse(SubSeq(stack, 1, Len(stack) - 1), Tail(rest))
         ELSE Collapse(Append(stack, Head(rest)), Tail(rest))

\* os.path.realpath of an absolute path on a host without symbolic links
Realpath(p) == LET c == Collapse(<<>>, Components(p))
               IN  IF c = <<>> THEN <<"/">> ELSE FromComponents(c)

\* macholib.util.in_system_path
InSystemPath(p) ==
    LET fn == Realpath(p)
    IN  IF StartsWith(fn, <<"/", "usr", "/", "local", "/">>) THEN FALSE
        ELSE StartsWith(fn, <<"/", "System", "/">>) \/ StartsWith(fn, <<"/", "usr", "/">>)

\* [r[1] for r in tcltree if r[1].endswith('init.tcl')]
InitResources(tree) == SelectSeq(tree, LAMBDA r : EndsWith(r[2], <<"init.tcl">>))

Whitespace == {" ", "\t", "\n"}

RECURSIVE LStrip(_)
LStrip(s) == IF s # <<>> /\ Head(s) \in Whitespace THEN LStrip(Tail(s)) ELSE s
RECURSIVE RStrip(_)
RStrip(s) == IF s # <<>> /\ s[Len(s)] \in Whitespace
             THEN RStrip(SubSeq(s, 1, Len(s) - 1)) ELSE s
\* str.strip()
Strip(s) == LStrip(RStrip(s))

\* str.lower() of one character
LowerChar(c) ==
    CASE c = "A" -> "a" [] c = "C" -> "c" [] c = "E" -> "e" [] c = "I" -> "i"
      [] c = "L" -> "l" [] c = "O" -> "o" [] c = "P" -> "p" [] c = "T" -> "t"
      [] c = "V" -> "v" [] OTHER -> c
\* str.lower()
Lower(s) == [i \in 1..Len(s) |-> LowerChar(s[i])]

ActiveTclMark == <<"a", "c", "t", "i", "v", "e", "t", "c", "l">>
TeapotMark == <<"t", "e", "a", "p", "o", "t">>

\* the loop over init_file.readlines(): <<mentions_activetcl, mentions_teapot>> at its end
\* (variant: the two flags are set anew on every line)
RECURSIVE ScanLines_PerLine(_, _, _, _)
ScanLines_PerLine(lines, i, a, t) ==
    IF i > Len(lines) THEN <<a, t>>
    ELSE LET line == Lower(Strip(lines[i]))
         IN  IF StartsWith(line, <<"#">>) THEN ScanLines_PerLine(lines, i + 1, a, t)
             ELSE LET a2 == Contains(line, ActiveTclMark)
                      t2 == Contains(line, TeapotMark)
                  IN  IF a2 /\ t2 THEN <<a2, t2>>
                      ELSE ScanLines_PerLine(lines, i + 1, a2, t2)
RECURSIVE ScanLines(_, _, _, _)
ScanLines(lines, i, a, t) ==
    IF i > Len(lines) THEN <<a, t>>
    ELSE LET line == Lower(Strip(lines[i]))
         IN  IF StartsWith(line, <<"#">>) THEN ScanLines(lines, i + 1, a, t)
             ELSE LET a2 == a \/ Contains(line, ActiveTclMark)
                      t2 == t \/ Contains(line, TeapotMark)
                  IN  IF a2 /\ t2 THEN <<a2, t2>>
                      ELSE ScanLines(lines, i + 1, a2, t2)

\* a record handed to the logger
LogRecord(level, msg, path) == [level |-> level, msg |-> msg, path |-> path]

\* what open()/readlines() gave: the lines, or the exception raised
FileRead(lines) == [opened |-> TRUE, error |-> "", lines |-> lines]
\* readlines() meets bytes that are not valid in locale.getpreferredencoding()
Undecodable == [opened |-> TRUE, error |-> "UnicodeDecodeError", lines |-> <<>>]
\* open() is refused by the host (PermissionError and the like)
Unopenable == [opened |-> TRUE, error |-> "OSError", lines |-> <<>>]
NotRead == [opened |-> FALSE, error |-> "", lines |-> <<>>]

\* _warn_if_activetcl_or_teapot_installed(root, tree) when reading the script yields
\* `content`: [raised (the exception's class, "" if none), read, log]
WarnIfActiveTcl(root, tree, content) ==
    IF InSystemPath(root)
    THEN [raised |-> "", read |-> NotRead, log |-> <<>>]
    ELSE IF InitResources(tree) = <<>>
    THEN [raised |-> "", read |-> NotRead, log |-> <<>>]
    ELSE LET init_resource == InitResources(tree)[1][2]
         IN  IF content.error # ""
             THEN [raised |-> content.error, read |-> content, log |-> <<>>]
             ELSE LET m == ScanLines(content.lines, 1, FALSE, FALSE)
                  IN  [raised |-> "", read |-> content,
                       log |-> IF m[1] /\ m[2]
                               THEN <<LogRecord("warning", "ActiveTcl build", init_resource)>>
                               ELSE <<>>]

\* the lines init.tcl can hold
InitLines == {<<"A", "c", "t", "i", "v", "e", "T", "c", "l">>,
              <<"t", "e", "a", "p", "o", "t", "\n">>,
              <<" ", "#", " ", "T", "E", "A", "P", "O", "T", " ",
                "a", "c", "t", "i", "v", "e", "t", "c", "l">>,
              <<"T", "e", "a", "p", "o", "t", " ",
                "A", "C", "T", "I", "V", "E", "T", "C", "L">>,
              <<"s", "e", "t", " ", "x">>}

\* what open(init_resource).readlines() can yield
InitContents == {FileRead(l) : l \in SeqsUpTo(InitLines, MaxLines)} \cup {Undecodable, Unopenable}

-----------------------------------------------------------------------------
(* _collect_tcl_modules *)

RECURSIVE BeforeDot(_)
\* tcl_version.split('.')[0]
BeforeDot(v) == IF v = <<>> \/ Head(v) = "." THEN <<>> ELSE <<Head(v)>> \o BeforeDot(Tail(v))

\* 'tcl' + str(tcl_version)
\* (variant: the version is not cut at its first dot)
ModulesDirName_FullVersion(tclver) == "tcl" \o Flatten(tclver)
ModulesDirName(tclver) == "tcl" \o Flatten(BeforeDot(tclver))

\* os.path.join(tcl_root, '..', modules_dirname)
ModulesPath(root, tclver) == Join(Join(root, <<"..">>), <<ModulesDirName(tclver)>>)

\* _collect_tcl_modules(root) in filesystem d, the probe answering tclver and a walk
\* of the modules directory yielding `listing`: [path, tree, log, calls]
CollectTclModules(d, root, tclver, listing) ==
    LET path == ModulesPath(root, tclver)
    IN  IF ~IsDirIn(d, path)
        THEN [path |-> path, tree |-> <<>>,
              log |-> <<LogRecord("warning", "Tcl modules directory does not exist", path)>>,
              calls |-> <<>>]
        ELSE [path |-> path, tree |-> Tree(path, ModulesDirName(tclver), <<>>, listing),
              log |-> <<>>,
              calls |-> <<<<"Tree", path>>>>]

-----------------------------------------------------------------------------
(* collect_tcl_tk_files, step by step *)

\* lines 219-227: both roots are usable
\* (variant: the check of line 225 is left out)
RootsUsable_TclOnly(d, tcl, tk) == Truthy(tcl) /\ IsDirIn(d, tcl)
RootsUsable(d, tcl, tk) == Truthy(tcl) /\ IsDirIn(d, tcl) /\ IsDirIn(d, tk)

\* line 212: the system-framework outcome
SystemFrameworkSkip(darwin, tcl, tk) == darwin /\ ~Truthy(tcl) /\ ~Truthy(tk)

\* line 242: tcltree + tktree + tclmodulestree
\* (variant: the first two operands are swapped)
Concatenate_WidgetFirst(core, widget, modules) == Plus(Plus(widget, core), modules)
Concatenate(core, widget, modules) == Plus(Plus(core, widget), modules)

\* the directories a host holds beside its Tcl library, for the probes' answers
HostDirs(lib, tkver, tclver) ==
    LET c == Components(lib)
        parent == SubSeq(c, 1, Len(c) - 1)
    IN  IF c = <<>> THEN {}
        ELSE {c, Append(parent, "tk" \o Flatten(tkver)), Append(parent, "tcl" \o Head(tclver))}

\* a set of directories, with their ancestors
WithAncestors(S) == UNION {{SubSeq(c, 1, n) : n \in 1..Len(c)} : c \in S}

Init ==
    /\ is_darwin \in BOOLEAN
    /\ tkinter_ext_file \in ExtFiles
    /\ info_library \in LibraryRoots
    /\ tk_version \in TkVersions
    /\ info_tclversion \in TclVersions
    /\ \E S \in SUBSET HostDirs(info_library, tk_version, info_tclversion) :
           dirs = WithAncestors(S)
    /\ pc = "find"
    /\ calls = <<>>
    /\ scanner_answer = <<<<>>, <<>>>>
    /\ bins = <<>>
    /\ tcl_root = Unset
    /\ tk_root = Unset
    /\ tcltree = <<>>
    /\ tktree = <<>>
    /\ init_file = NotRead
    /\ modules_path = Unset
    /\ tclmodulestree = <<>>
    /\ log = <<>>
    /\ result = <<>>
    /\ exception = ""

\* line 204: tcl_root, tk_root = _find_tcl_tk(tkinter_ext_file)
Find ==
    /\ pc = "find"
    /\ \E answer \in ScannerAnswers :
         LET r == FindTclTk(is_darwin, answer[1], answer[2], info_library, tk_version)
         IN  /\ calls' = [i \in 1..Len(r.calls) |->
                            IF r.calls[i] = "_find_tcl_tk_dir" THEN <<r.calls[i], <<>>>>
                            ELSE <<r.calls[i], tkinter_ext_file>>]
             /\ bins' = r.bins
             /\ scanner_answer' = IF is_darwin THEN answer ELSE <<<<>>, <<>>>>
             /\ tcl_root' = r.roots[1]
             /\ tk_root' = r.roots[2]
             /\ pc' = IF r.raised THEN "raised" ELSE "check"
             /\ exception' = IF r.raised THEN "KeyError" ELSE ""
    /\ UNCHANGED <<env, tcltree, tktree, init_file, modules_path, tclmodulestree, log,
                   result>>

\* lines 212-227: the short circuits
Check ==
    /\ pc = "check"
    /\ bins' = <<>>
    /\ scanner_answer' = <<<<>>, <<>>>>
    /\ IF SystemFrameworkSkip(is_darwin, tcl_root, tk_root)
       THEN /\ log' = Append(log, LogRecord("info", "Not collecting Tcl/Tk data", <<>>))
            /\ result' = <<>>
            /\ pc' = "done"
       ELSE IF ~Truthy(tcl_root)
       THEN /\ log' = Append(log, LogRecord("error", "Tcl/Tk improperly installed", <<>>))
            /\ result' = <<>>
            /\ pc' = "done"
       ELSE IF ~RootsUsable(dirs, tcl_root, tk_root)
       THEN /\ log' = Append(log, IF ~IsDir(tcl_root)
                                  THEN LogRecord("error", "Tcl data directory not found", tcl_root)
                                  ELSE LogRecord("error", "Tk data directory not found", tk_root))
            /\ result' = <<>>
            /\ pc' = "done"
       ELSE /\ pc' = "trees"
            /\ UNCHANGED <<log, result>>
    /\ UNCHANGED <<env, calls, tcl_root, tk_root, tcltree, tktree, init_file,
                   modules_path, tclmodulestree, exception>>

\* lines 229-232: the two trees
Trees ==
    /\ pc = "trees"
    /\ \E tl \in TclListings, kl \in TkListings :
         /\ tcltree' = Tree(tcl_root, "tcl", <<"demos", "*.lib", "tclConfig.sh">>, tl)
         /\ tktree' = Tree(tk_root, "tk", <<"demos", "*.lib", "tkConfig.sh">>, kl)
    /\ calls' = calls \o <<<<"Tree", tcl_root>>, <<"Tree", tk_root>>>>
    /\ pc' = "health"
    /\ UNCHANGED <<env, scanner_answer, bins, tcl_root, tk_root, init_file, modules_path,
                   tclmodulestree, log, result, exception>>

\* lines 236-237: the health check, on macOS only
Health ==
    /\ pc = "health"
    /\ \/ /\ is_darwin
          /\ \E content \in InitContents :
               LET r == WarnIfActiveTcl(tcl_root, tcltree, content)
               IN  /\ init_file' = r.read
                   /\ log' = log \o r.log
                   /\ pc' = IF r.raised # "" THEN "raised" ELSE "modules"
                   /\ exception' = r.raised
          /\ calls' = Append(calls, <<"_warn_if_activetcl_or_teapot_installed", tcl_root>>)
       \/ /\ ~is_darwin
          /\ pc' = "modules"
          /\ UNCHANGED <<init_file, log, calls, exception>>
    /\ UNCHANGED <<env, scanner_answer, bins, tcl_root, tk_root, tcltree, tktree, modules_path,
                   tclmodulestree, result>>

\* line 240: tclmodulestree = _collect_tcl_modules(tcl_root)
Modules ==
    /\ pc = "modules"
    /\ \E ml \in ModuleListings :
         LET r == CollectTclModules(dirs, tcl_root, info_tclversion, ml)
         IN  /\ modules_path' = r.path
             /\ tclmodulestree' = r.tree
             /\ log' = log \o r.log
             /\ calls' = Append(calls, <<"_collect_tcl_modules", tcl_root>>) \o r.calls
    /\ init_file' = NotRead
    /\ pc' = "return"
    /\ UNCHANGED <<env, scanner_answer, bins, tcl_root, tk_root, tcltree, tktree, result, exception>>

\* line 242: return (tcltree + tktree + tclmodulestree)
Return ==
    /\ pc = "return"
    /\ result' = Concatenate(tcltree, tktree, tclmodulestree)
    /\ pc' = "done"
    /\ UNCHANGED <<env, calls, scanner_answer, bins, tcl_root, tk_root, tcltree, tktree,
                   init_file, modules_path, tclmodulestree, log, exception>>

Next == Find \/ Check \/ Trees \/ Health \/ Modules \/ Return

Spec == Init /\ [][Next]_vars

-----------------------------------------------------------------------------
(* Vocabulary of the properties. *)

\* the names of the collaborators called so far
Called(name) == \E i \in 1..Len(calls) : calls[i][1] = name

\* _find_tcl_tk has just returned or raised
FindFinished == pc = "check" \/ (pc = "raised" /\ exception = "KeyError")

\* the linked images the scanner reported to _find_tcl_tk
ImagesScanned ==
    {scanner_answer[1][i][2] : i \in 1..Len(scanner_answer[1])}
    \cup {scanner_answer[2][i] : i \in 1..Len(scanner_answer[2])}

\* a linked image of the system Tcl framework
IsSystemFrameworkImage(p) == Contains(p, SystemFrameworkMark)

\* the advisory warnings of the health check logged so far
HealthWarnings == SelectSeq(log, LAMBDA r : r.msg = "ActiveTcl build")

\* the error records logged so far
ErrorRecords == SelectSeq(log, LAMBDA r : r.level = "error")

-----------------------------------------------------------------------------
(* C1 *)

\* C1: no exception crosses the boundary of collect_tcl_tk_files, whatever the
\* platform, the scanner's answers and the filesystem hold.
C1_NoExceptionCrosses == pc # "raised" /\ exception = ""

-----------------------------------------------------------------------------
(* C2 *)

\* C2: if the resolved tcl_root or tk_root is not an existing directory, the call
\* returns the empty manifest without raising, and no root is enumerated, the health
\* check is not run and the modules directory is not collected; whenever a tree is
\* enumerated, both roots are existing directories.
C2_AllOrNothing ==
    /\ (pc # "find" /\ exception # "KeyError" /\ (~IsDir(tcl_root) \/ ~IsDir(tk_root)))
        => /\ pc \in {"check", "done"}
           /\ exception = ""
           /\ ~Called("Tree")
           /\ ~Called("_warn_if_activetcl_or_teapot_installed")
           /\ ~Called("_collect_tcl_modules")
           /\ pc = "done" => result = <<>>
    /\ (Called("Tree") \/ Called("_collect_tcl_modules"))
        => IsDir(tcl_root) /\ IsDir(tk_root)

\* the call returned empty because the Tk root alone is missing
C2_Witness ==
    /\ pc = "done"
    /\ IsDir(tcl_root)
    /\ ~IsDir(tk_root)
    /\ result = <<>>
    /\ Len(ErrorRecords) = 1

-----------------------------------------------------------------------------
(* C3 *)

\* C3: on macOS, whenever the linked image whose base name is 'Tcl' lies inside
\* Library/Frameworks/Tcl.framework, _find_tcl_tk returns (None, None), for the
\* curated list and for the full-list fallback, wherever the entry stands.
C3_SystemTclGivesNone ==
    (/\ is_darwin
     /\ FindFinished
     /\ \E p \in ImagesScanned : Basename(p) = <<"Tcl">>
     /\ \A p \in ImagesScanned : Basename(p) = <<"Tcl">> => IsSystemFrameworkImage(p))
    => (pc = "check" /\ tcl_root = None /\ tk_root = None)

-----------------------------------------------------------------------------
(* C4 *)

\* C4: on macOS, when the scanner reports a bundled (non-system-framework) Tcl image
\* such as .../Python.framework/Versions/3.x/lib/libtcl8.6.dylib, _find_tcl_tk returns
\* the pair of _find_tcl_tk_dir, from the curated list and from the full-list fallback.
C4_BundledTclGivesDirs ==
    (/\ is_darwin
     /\ FindFinished
     /\ BundledTcl \in ImagesScanned
     /\ \A p \in ImagesScanned : ~IsSystemFrameworkImage(p))
    => (pc = "check" /\ <<tcl_root, tk_root>> = FindTclTkDir(info_library, tk_version))

-----------------------------------------------------------------------------
(* C5 *)

\* C5: on macOS, when the curated list and the full list are both empty, _find_tcl_tk
\* returns (None, None); and with both roots None on macOS collect_tcl_tk_files
\* returns the empty manifest with one informational record and no error record.
C5_EmptyScanIsSystemFramework ==
    /\ (is_darwin /\ FindFinished /\ scanner_answer = <<<<>>, <<>>>>)
        => /\ pc = "check"
           /\ tcl_root = None /\ tk_root = None
           /\ Called("selectImports") /\ Called("getImports")
    /\ (is_darwin /\ pc = "done" /\ tcl_root = None /\ tk_root = None)
        => /\ result = <<>>
           /\ log = <<LogRecord("info", "Not collecting Tcl/Tk data", <<>>)>>

\* the call returned on macOS after both scans came back empty
C5_Witness ==
    /\ is_darwin
    /\ pc = "done"
    /\ tcl_root = None
    /\ Called("getImports")
    /\ ~Called("_find_tcl_tk_dir")
    /\ result = <<>>
    /\ Len(log) = 1 /\ log[1].level = "info"

-----------------------------------------------------------------------------
(* C6 *)

\* the directory `name` beside the directory lib, in lib's parent
SiblingOf(lib, name) ==
    LET c == Components(lib)
    IN  IF c = <<>> THEN <<name>>
        ELSE FromComponents(Append(SubSeq(c, 1, Len(c) - 1), name))

\* C6: off macOS, _find_tcl_tk returns the probed library path and the directory
\* 'tk' + probed Tk version in that path's parent directory, whatever the extension
\* module is, and the dependency scanner is not invoked.
C6_NonDarwinRoots ==
    (~is_darwin /\ pc # "find")
    => /\ tcl_root = info_library
       /\ tk_root = SiblingOf(info_library, "tk" \o Flatten(tk_version))
       /\ ~Called("selectImports") /\ ~Called("getImports")
       /\ exception = ""

\* off macOS the roots were derived from a probed path
C6_Witness ==
    /\ ~is_darwin
    /\ pc = "check"
    /\ Truthy(tcl_root)
    /\ tk_root # tcl_root
    /\ Called("_find_tcl_tk_dir")

-----------------------------------------------------------------------------
(* C7 *)

\* a line Tcl reads as a comment: its first non-blank character is '#'
IsCommentLine(line) == \E i \in 1..Len(line) :
    /\ line[i] = "#"
    /\ \A j \in 1..(i - 1) : line[j] \in Whitespace

\* the marker occurs in the line, in any letter case
Mentions(line, mark) == \E i \in 0..Len(line) :
    /\ i + Len(mark) <= Len(line)
    /\ \A k \in 1..Len(mark) : LowerChar(line[i + k]) = mark[k]

\* the marker occurs on some line of the script / on some non-comment line
OccursIn(lines, mark) == \E i \in 1..Len(lines) : Mentions(lines[i], mark)
OccursOutsideComments(lines, mark) ==
    \E i \in 1..Len(lines) : ~IsCommentLine(lines[i]) /\ Mentions(lines[i], mark)

\* the health check has just scanned a readable init.tcl
HealthScanned == pc = "modules" /\ init_file.opened /\ init_file.error = ""

\* C7: on a non-system tcl_root whose manifest has an init.tcl entry, the health check
\* logs exactly one warning when 'activetcl' and 'teapot' (in any letter case) both
\* occur on non-comment lines, on one line or on two; none when only one of the two
\* occurs, or when both occur on comment lines only; and never more than one.
C7_OneWarningIffBothMarkers ==
    /\ Len(HealthWarnings) <= 1
    /\ HealthScanned =>
        LET lines == init_file.lines
        IN  /\ (OccursOutsideComments(lines, ActiveTclMark)
                /\ OccursOutsideComments(lines, TeapotMark))
                => Len(HealthWarnings) = 1
            /\ (OccursIn(lines, ActiveTclMark) /\ ~OccursIn(lines, TeapotMark))
                => Len(HealthWarnings) = 0
            /\ (~OccursIn(lines, ActiveTclMark) /\ OccursIn(lines, TeapotMark))
                => Len(HealthWarnings) = 0
            /\ (/\ OccursIn(lines, ActiveTclMark) /\ OccursIn(lines, TeapotMark)
                /\ ~OccursOutsideComments(lines, ActiveTclMark)
                /\ ~OccursOutsideComments(lines, TeapotMark))
                => Len(HealthWarnings) = 0

\* the two markers stood on two different non-comment lines and one warning was logged
C7_Witness ==
    /\ HealthScanned
    /\ OccursOutsideComments(init_file.lines, ActiveTclMark)
    /\ OccursOutsideComments(init_file.lines, TeapotMark)
    /\ ~\E i \in 1..Len(init_file.lines) :
          Mentions(init_file.lines[i], ActiveTclMark)
          /\ Mentions(init_file.lines[i], TeapotMark)
    /\ Len(HealthWarnings) = 1

-----------------------------------------------------------------------------
(* C8 *)

\* C8: when both roots exist, the manifest returned is the core entries, then the
\* widget entries, then the module entries, each in its own order, nothing added,
\* dropped or reordered.
C8_ConcatenationOrder ==
    (pc = "done" /\ Truthy(tcl_root) /\ IsDir(tcl_root) /\ IsDir(tk_root))
    => /\ Len(result) = Len(tcltree) + Len(tktree) + Len(tclmodulestree)
       /\ \A i \in 1..Len(tcltree) : result[i] = tcltree[i]
       /\ \A i \in 1..Len(tktree) : result[Len(tcltree) + i] = tktree[i]
       /\ \A i \in 1..Len(tclmodulestree) :
            result[Len(tcltree) + Len(tktree) + i] = tclmodulestree[i]

\* a manifest was returned from three non-empty trees, the core tree holding two entries
C8_Witness ==
    /\ pc = "done"
    /\ Len(tcltree) = 2 /\ tktree # <<>> /\ tclmodulestree # <<>>
    /\ Len(result) = Len(tcltree) + Len(tktree) + Len(tclmodulestree)

-----------------------------------------------------------------------------
(* C9 *)

\* C9: the health check does nothing but log: it never raises and leaves the core
\* manifest alone, runs on macOS only, logs nothing for a system tcl_root or a
\* manifest without init.tcl, and after it the modules are collected and the
\* manifest returned is the concatenation, warning or no warning.
C9_HealthCheckOnlyLogs ==
    /\ exception \notin {"UnicodeDecodeError", "OSError"}
    /\ Called("_warn_if_activetcl_or_teapot_installed")
        => /\ is_darwin
           /\ pc \in {"modules", "return", "done"}
           /\ (InSystemPath(tcl_root) \/ InitResources(tcltree) = <<>>)
                => HealthWarnings = <<>>
           /\ pc = "done" => result = tcltree \o tktree \o tclmodulestree

-----------------------------------------------------------------------------
(* C10 *)

\* the part of a version before its first dot
MajorOf(v) ==
    LET dots == {i \in 1..Len(v) : v[i] = "."}
        first == IF dots = {} THEN Len(v) + 1
                 ELSE CHOOSE i \in dots : \A j \in dots : i <= j
    IN  SubSeq(v, 1, first - 1)

\* the entry's destination lies under the prefix
HasPrefix(entry, prefix) == Len(entry[1]) >= 2 /\ entry[1][1] = prefix /\ entry[1][2] = "/"

\* C10: _collect_tcl_modules looks for tcl_root/../tcl<major>, <major> being the probed
\* core version up to its first dot; when that is no directory it logs a warning and
\* gives no entries, and collect_tcl_tk_files still returns the core entries followed
\* by the widget entries; when it is one, every entry is under 'tcl<major>'.
C10_ModulesDirectory ==
    Called("_collect_tcl_modules") =>
        LET name == "tcl" \o Flatten(MajorOf(info_tclversion))
        IN  /\ modules_path = tcl_root \o <<"/", "..", "/", name>>
            /\ exception = ""
            /\ ~IsDir(modules_path) =>
                 /\ tclmodulestree = <<>>
                 /\ log[Len(log)] =
                      LogRecord("warning", "Tcl modules directory does not exist", modules_path)
                 /\ ErrorRecords = <<>>
                 /\ pc = "done" => result = tcltree \o tktree
            /\ IsDir(modules_path) =>
                 \A i \in 1..Len(tclmodulestree) : HasPrefix(tclmodulestree[i], name)

\* the modules directory was missing and the core and widget entries were returned
C10_Witness ==
    /\ pc = "done"
    /\ Called("_collect_tcl_modules")
    /\ ~IsDir(modules_path)
    /\ tcltree # <<>> /\ tktree # <<>>
    /\ result = tcltree \o tktree

=============================================================================
